---- MODULE Spec2Model ----
(***************************************************************************)
(* The watch-compile-emit-supervise loop of love-ts (src/src/watch.ts).    *)
(*                                                                         *)
(* A string is a sequence of chunks; a chunk is a pair <<text, n>>.        *)
(* Concatenation of strings is \o.  A path is a sequence of segments.      *)
(***************************************************************************)
EXTENDS Integers, Sequences, FiniteSets, TLC

\* ------------------------------------------------------------------ bounds
\* Number of afterProgramCreate invocations explored in one session.
MaxPasses == 3
\* Highest version an edited source unit reaches (1 is the unedited text).
MaxVer == 2

\* ----------------------------------------------------------------- strings
Lit(s) ==
    <<s, 0>>

NL ==
    Lit("\n")

\* src/src/watch.ts:9-12
luaConfHead ==
    << NL,
       Lit("package.path = package.path .. \";node_modules/?/init.lua\""), NL,
       Lit("package.path = package.path .. \";node_modules/?/?.lua\""), NL >>

\* src/src/watch.ts:14-22
luaMainTail ==
    << NL,
       Lit("local oldUpdate = love.update"), NL,
       Lit("function love.update(delta)"), NL,
       Lit("    if oldUpdate then"), NL,
       Lit("        oldUpdate(delta)"), NL,
       Lit("    end"), NL,
       Lit("    require(\"lurker\").update()"), NL,
       Lit("end"), NL >>

StartsWith(s, prefix) ==
    /\ Len(s) >= Len(prefix)
    /\ SubSeq(s, 1, Len(prefix)) = prefix

\* A JavaScript value of type string | undefined.
Str(t) ==
    [def |-> TRUE, text |-> t]

Undefined ==
    [def |-> FALSE, text |-> <<>>]

\* !v for a string | undefined: undefined and "" are falsy.
Falsy(v) ==
    (~v.def) \/ v.text = <<>>

\* The text fs.writeSync puts on disk for a value: undefined is coerced to
\* the string "undefined" (the builds on which it throws instead are the
\* failing-write case of emitFiles).
WrittenText(v) ==
    IF v.def THEN v.text ELSE <<Lit("undefined")>>

\* ------------------------------------------------------------------- paths
\* path.basename
Basename(p) ==
    p[Len(p)]

\* path.join(dir, file)
Join(dir, file) ==
    dir \o <<file>>

\* The temporary directory of transpileExecuteAndWatch (watch.ts:25-27).
outDir ==
    <<"out">>

\* ------------------------------------------------------------ source tree
Units ==
    {"conf", "sub/conf", "main", "a"}

\* The order in which the program and the builder list their source files.
UnitOrder ==
    <<"conf", "sub/conf", "main", "a">>

\* Output path of a unit below the output directory.
RelPath(u) ==
    CASE u = "conf" -> <<"conf.lua">>
      [] u = "sub/conf" -> <<"sub", "conf.lua">>
      [] u = "main" -> <<"main.lua">>
      [] OTHER -> <<"a.lua">>

\* The Lua text generated for unit u at version v.
LuaText(u, v) ==
    << <<u, v>> >>

\* The source trees a session may start from: which units the project has.
SourceTrees ==
    { {"main", "a"},
      {"conf", "main", "a"},
      {"sub/conf", "main"} }

\* tstl.transpile + tstl.emitTranspiledFiles (watch.ts:151-153): one output
\* file per transpiled source file, named below options.outDir.
OutputFile(u, v, dir) ==
    [name |-> dir \o RelPath(u), text |-> LuaText(u, v)]

\* The units of the sequence us that are present in tree (version > 0).
RECURSIVE OutputFiles(_, _, _)
OutputFiles(us, tree, dir) ==
    IF us = <<>> THEN <<>>
    ELSE LET u == Head(us)
         IN  (IF tree[u] > 0 THEN <<OutputFile(u, tree[u], dir)>> ELSE <<>>)
             \o OutputFiles(Tail(us), tree, dir)

\* ------------------------------------------------------------- file system
Paths ==
    { outDir \o RelPath(u) : u \in Units }
        \cup { Join(outDir, "conf.lua"), Join(outDir, "lume.lua"),
               Join(outDir, "lurker.lua") }

Absent ==
    [exists |-> FALSE, data |-> <<>>]

File(t) ==
    [exists |-> TRUE, data |-> t]

EmptyFs ==
    [p \in Paths |-> Absent]

\* A disk on which a write adds to what the file already holds.
ApplyWritesAppending(files, ws) ==
    [p \in Paths |->
        LET I == { i \in 1..Len(ws) : ws[i].name = p }
        IN  IF I = {} THEN files[p]
            ELSE File(files[p].data
                      \o ws[CHOOSE i \in I : \A j \in I : j <= i].text)]

\* The file system after the writes ws (a sequence of [name, text]) in order.
ApplyWrites(files, ws) ==
    [p \in Paths |->
        LET I == { i \in 1..Len(ws) : ws[i].name = p }
        IN  IF I = {} THEN files[p]
            ELSE File(ws[CHOOSE i \in I : \A j \in I : j <= i].text)]

\* --------------------------------------------------------------- emitFiles
\* watch.ts:39-55: the write each output file becomes, by its basename.
FileWrite(f) ==
    CASE Basename(f.name) = "conf.lua" ->
            [name |-> f.name, text |-> luaConfHead \o <<NL>> \o f.text]
      [] Basename(f.name) = "main.lua" ->
            [name |-> f.name, text |-> f.text \o <<NL>> \o luaMainTail]
      [] OTHER ->
            [name |-> f.name, text |-> f.text]

FileWrites(outputFiles) ==
    [i \in 1..Len(outputFiles) |-> FileWrite(outputFiles[i])]

\* watch.ts:38,43: wroteConf after the forEach.
WroteConf(outputFiles) ==
    \E i \in 1..Len(outputFiles) : Basename(outputFiles[i].name) = "conf.lua"

\* watch.ts:57-59
ConfFallback(outputFiles, dir) ==
    IF ~WroteConf(outputFiles)
    THEN << [name |-> Join(dir, "conf.lua"), text |-> luaConfHead] >>
    ELSE <<>>

\* watch.ts:61
ShimGuard(lume, lurker) ==
    Falsy(lume) /\ Falsy(lurker)

\* watch.ts:66-67, with the contents read at 64-65
ShimWrites(dir, readLume, readLurker) ==
    << [name |-> Join(dir, "lume.lua"), text |-> WrittenText(readLume)],
       [name |-> Join(dir, "lurker.lua"), text |-> WrittenText(readLurker)] >>

\* ts.sys.writeFile throws when the write fails; neither emitFiles nor
\* afterProgramCreate catches it.  failAt is the index of the failing write
\* among the writes of the call (0: none fails).
WriteThrowsSwallowed(failAt) ==
    FALSE

WriteThrows(failAt) ==
    failAt # 0

\* The writes one call of emitFiles makes when none fails, in order.
WritePlan(outputFiles, dir, lume, lurker, bundledLume, bundledLurker) ==
    FileWrites(outputFiles)
        \o ConfFallback(outputFiles, dir)
        \o (IF ShimGuard(lume, lurker)
            THEN ShimWrites(dir, bundledLume, bundledLurker) ELSE <<>>)

\* watch.ts:37-69.  files is the disk, lume and lurker the module variables
\* lumeContent and lurkerContent, bundledLume and bundledLurker what
\* ts.sys.readFile returns for ../lib/lume.lua and ../lib/lurker.lua.
\* A failing write leaves its file as it was and ends the call.
emitFiles(outputFiles, dir, files, lume, lurker, bundledLume, bundledLurker, failAt) ==
    LET plan   == WritePlan(outputFiles, dir, lume, lurker, bundledLume, bundledLurker)
        before == Len(FileWrites(outputFiles)) + Len(ConfFallback(outputFiles, dir))
        done   == IF failAt = 0 THEN plan ELSE SubSeq(plan, 1, failAt - 1)
        loaded == ShimGuard(lume, lurker) /\ (failAt = 0 \/ failAt > before)
    IN  [ files   |-> ApplyWrites(files, done),
          lume    |-> IF loaded THEN bundledLume ELSE lume,
          lurker  |-> IF loaded THEN bundledLurker ELSE lurker,
          threw   |-> WriteThrows(failAt),
          events  |-> [i \in 1..Len(done) |-> [ev |-> "write", name |-> done[i].name]]
                      \o (IF failAt = 0 THEN <<>>
                          ELSE <<[ev |-> "writeFailed", name |-> plan[failAt].name]>>) ]

\* ------------------------------------------------------------- diagnostics
\* A diagnostic: the rank of its file path in string order, its start, its
\* code and its category.
CfgErr ==
    [file |-> 2, start |-> 0, code |-> 5023, category |-> "Error"]

SynErr ==
    [file |-> 1, start |-> 7, code |-> 1005, category |-> "Error"]

SemWarn ==
    [file |-> 1, start |-> 3, code |-> 6133, category |-> "Warning"]

EmitErr ==
    [file |-> 1, start |-> 5, code |-> 100019, category |-> "Error"]

\* What each diagnostic source of watch.ts:157-162 may return in a pass.
ConfigDiags ==
    { <<>>, <<CfgErr>> }

OptionsDiags ==
    { <<>>, <<CfgErr>> }

SyntacticDiags ==
    { <<>>, <<SynErr>> }

GlobalDiags ==
    { <<>> }

SemanticDiags ==
    { <<>>, <<SemWarn>> }

EmitDiags ==
    { <<>>, <<EmitErr>> }

\* ts.compareDiagnostics: file, start, code (the category is not compared).
CompareDiagnostics(d1, d2) ==
    IF d1.file # d2.file THEN (IF d1.file < d2.file THEN -1 ELSE 1)
    ELSE IF d1.start # d2.start THEN (IF d1.start < d2.start THEN -1 ELSE 1)
    ELSE IF d1.code # d2.code THEN (IF d1.code < d2.code THEN -1 ELSE 1)
    ELSE 0

\* Insert d into the sorted, duplicate-free sequence s.
RECURSIVE InsertDiagnostic(_, _)
InsertDiagnostic(d, s) ==
    IF s = <<>> THEN <<d>>
    ELSE LET c == CompareDiagnostics(d, Head(s))
         IN  IF c < 0 THEN <<d>> \o s
             ELSE IF c = 0 THEN s
             ELSE <<Head(s)>> \o InsertDiagnostic(d, Tail(s))

\* ts.sortAndDeduplicateDiagnostics (watch.ts:156): of equal diagnostics the
\* first of the input is kept.
RECURSIVE sortAndDeduplicateDiagnostics(_)
sortAndDeduplicateDiagnostics(ds) ==
    IF ds = <<>> THEN <<>>
    ELSE LET n == Len(ds)
         IN  InsertDiagnostic(ds[n], sortAndDeduplicateDiagnostics(SubSeq(ds, 1, n - 1)))

\* ------------------------------------------------------------------- state
VARIABLES
    fullRecompile,      \* watch.ts:104
    loveIsRunning,      \* watch.ts:107
    lumeContent,        \* watch.ts:34
    lurkerContent,      \* watch.ts:35
    bundledLume,        \* what readFile returns for ../lib/lume.lua
    bundledLurker,      \* what readFile returns for ../lib/lurker.lua
    tree,               \* the source tree: unit -> version, 0 when absent
    pending,            \* the builder's changed files not yet handed over (all
                        \* files at first: the first builder has no old state)
    triggered,          \* the watch program has a new program to hand over
    files,              \* the disk below the output directory
    host,               \* "running", "exited" (ts.sys.exit), "crashed"
    exitCode,           \* the host's exit code, -1 while it runs
    child,              \* "none", "running", "failed" (spawn error), "closed"
    childStatus,        \* the code and signal the child closed with
    rimrafStarted,      \* rimraf(outDir) has been called
    sourceFiles,        \* the sourceFiles of the last pass (watch.ts:136)
    passLog,            \* what the last pass did, in order
    prevHadError,       \* the pass before the last reported an Error diagnostic
    passCount,          \* afterProgramCreate invocations so far
    completed,          \* those that returned
    spawnCount,         \* calls of spawn("lovec")
    lumeWrites,         \* writes of outDir/lume.lua
    lurkerWrites,       \* writes of outDir/lurker.lua
    outFile,            \* the project sets compilerOptions.outFile
    configOutDir,       \* the outDir of the project's tsconfig.json, <<>> if none
    scenario            \* how far the passes so far follow 0, 1, 0 errors

vars ==
    << fullRecompile, loveIsRunning, lumeContent, lurkerContent, bundledLume,
       bundledLurker, tree, pending, triggered, files, host, exitCode, child,
       childStatus, rimrafStarted, sourceFiles, passLog, prevHadError, passCount, completed,
       spawnCount, lumeWrites, lurkerWrites, outFile, configOutDir, scenario >>

\* What the project's tsconfig.json may give as outDir: nothing, or a
\* directory of its own.
ConfigOutDirs ==
    { <<>>, <<"dist">> }

\* The projects a session is explored with: every source tree with a plain
\* configuration, one with outFile set, one with an outDir of its own.
Sessions ==
    { [units |-> T, outFile |-> FALSE, configOutDir |-> <<>>] : T \in SourceTrees }
        \cup { [units |-> {"conf", "main", "a"}, outFile |-> TRUE, configOutDir |-> <<>>],
               [units |-> {"main", "a"}, outFile |-> FALSE, configOutDir |-> <<"dist">>] }

\* The arguments of the child's close event: its exit code (-1 for null,
\* when a signal ended it) and the signal.
ChildStatuses ==
    { [code |-> 0, signal |-> "none"],
      [code |-> 1, signal |-> "none"],
      [code |-> -1, signal |-> "SIGKILL"] }

\* The child has not closed.
NoStatus ==
    [code |-> -1, signal |-> "none"]

\* What ts.sys.readFile may return for a bundled file: undefined when it
\* cannot be read, "" when it is empty, its text otherwise.
BundledContents(nm) ==
    { Undefined, Str(<<>>), Str(<<Lit(nm)>>) }

\* The pairs of bundled contents a session is explored with.
BundledPairs ==
    { <<Str(<<Lit("lume")>>), Str(<<Lit("lurker")>>)>>,
      <<Str(<<>>), Str(<<Lit("lurker")>>)>>,
      <<Str(<<>>), Str(<<>>)>>,
      <<Undefined, Undefined>> }

Init ==
    /\ fullRecompile = TRUE
    /\ loveIsRunning = FALSE
    /\ lumeContent = Undefined
    /\ lurkerContent = Undefined
    /\ bundledLume \in BundledContents("lume")
    /\ bundledLurker \in BundledContents("lurker")
    /\ <<bundledLume, bundledLurker>> \in BundledPairs
    /\ \E T \in SourceTrees : tree = [u \in Units |-> IF u \in T THEN 1 ELSE 0]
    /\ outFile \in BOOLEAN
    /\ configOutDir \in ConfigOutDirs
    /\ [units |-> { u \in Units : tree[u] > 0 }, outFile |-> outFile,
        configOutDir |-> configOutDir] \in Sessions
    /\ pending = { u \in Units : tree[u] > 0 }
    /\ triggered = TRUE
    /\ files = EmptyFs
    /\ host = "running"
    /\ exitCode = -1
    /\ child = "none"
    /\ childStatus = NoStatus
    /\ rimrafStarted = FALSE
    /\ sourceFiles = [def |-> FALSE, list |-> <<>>]
    /\ passLog = <<>>
    /\ prevHadError = FALSE
    /\ passCount = 0
    /\ completed = 0
    /\ spawnCount = 0
    /\ lumeWrites = 0
    /\ lurkerWrites = 0
    /\ scenario = 0

\* ---------------------------------------------------------- passLog helpers
Events(log, kind) ==
    { i \in 1..Len(log) : log[i].ev = kind }

ErrorEvents(log) ==
    { i \in Events(log, "diag") : log[i].category = "Error" }

WritesOf(log, p) ==
    Cardinality({ i \in Events(log, "write") : log[i].name = p })

\* ------------------------------------------------------- afterProgramCreate
\* builderProgram.getSemanticDiagnosticsOfNextAffectedFile() on a builder
\* whose changed files are pend, in a program with the files of t: nothing
\* when no file is pending; the program itself when outFile is set (whole),
\* which settles every pending file at once; otherwise the next pending file.
NextAffected(pend, whole, t) ==
    IF pend = {} THEN [some |-> FALSE, isFile |-> FALSE, units |-> <<>>, rest |-> pend]
    ELSE IF whole
         THEN [some |-> TRUE, isFile |-> FALSE,
               units |-> SelectSeq(UnitOrder, LAMBDA u : t[u] > 0), rest |-> {}]
         ELSE LET first == SelectSeq(UnitOrder, LAMBDA u : u \in pend)[1]
              IN  [some |-> TRUE, isFile |-> TRUE,
                   units |-> <<first>>, rest |-> pend \ {first}]

\* A loop that asks the builder once.
AffectedLoopOnce(pend, whole, t, acc) ==
    LET cur == NextAffected(pend, whole, t)
    IN  [list |-> acc \o cur.units, pending |-> cur.rest]

\* watch.ts:139-148: the while (true) loop, acc being sourceFiles so far.  A
\* file is pushed itself, a program contributes getSourceFiles().
RECURSIVE AffectedLoop(_, _, _, _)
AffectedLoop(pend, whole, t, acc) ==
    LET cur == NextAffected(pend, whole, t)
    IN  IF ~cur.some THEN [list |-> acc, pending |-> pend]
        ELSE AffectedLoop(cur.rest, whole, t, acc \o cur.units)

\* watch.ts:136-149.  In full mode the builder is not asked and sourceFiles
\* stays undefined; in incremental mode it is what the loop collected.
AffectedFiles(full, pend, whole, t) ==
    IF full THEN [def |-> FALSE, list |-> <<>>]
    ELSE [def |-> TRUE, list |-> AffectedLoop(pend, whole, t, <<>>).list]

\* The builder's changed files after lines 136-149.
PendingAfter(full, pend, whole, t) ==
    IF full THEN pend ELSE AffectedLoop(pend, whole, t, <<>>).pending

\* tstl.transpile({ program, sourceFiles }): the given files, or every file
\* of the program when sourceFiles is undefined (watch.ts:151).
TranspiledUnits(sf) ==
    IF sf.def THEN sf.list ELSE UnitOrder

\* watch.ts:167
ErrorsOfUnfiltered(diagnostics) ==
    diagnostics

ErrorsOf(diagnostics) ==
    SelectSeq(diagnostics, LAMBDA d : d.category = "Error")

\* watch.ts:169
NextFullRecompileOffByOne(errors) ==
    Len(errors) > 1

NextFullRecompile(errors) ==
    Len(errors) > 0

\* watch.ts:173
SpawnGuardAlways(running) ==
    TRUE

SpawnGuardNever(running) ==
    FALSE

SpawnGuard(running) ==
    ~running

\* watch.ts:174-180: spawn lovec, register the close handler, set the flag.
\* Registering the handler does not run it.
SpawnBlockEagerCleanup(running, count, ch, rimraf, spawnOk) ==
    IF SpawnGuard(running)
    THEN [ loveIsRunning |-> TRUE, spawnCount |-> count + 1,
           child |-> IF spawnOk THEN "running" ELSE "failed",
           rimrafStarted |-> TRUE,
           events |-> <<[ev |-> "spawn", dir |-> outDir]>> ]
    ELSE [ loveIsRunning |-> running, spawnCount |-> count, child |-> ch,
           rimrafStarted |-> rimraf, events |-> <<>> ]

SpawnBlock(running, count, ch, rimraf, spawnOk) ==
    IF SpawnGuard(running)
    THEN [ loveIsRunning |-> TRUE, spawnCount |-> count + 1,
           child |-> IF spawnOk THEN "running" ELSE "failed",
           rimrafStarted |-> rimraf,
           events |-> <<[ev |-> "spawn", dir |-> outDir]>> ]
    ELSE [ loveIsRunning |-> running, spawnCount |-> count, child |-> ch,
           rimrafStarted |-> rimraf, events |-> <<>> ]

\* watch.ts:165: one reportDiagnostic call per diagnostic, in list order.
DiagEvents(diagnostics) ==
    [i \in 1..Len(diagnostics) |->
        [ev |-> "diag", category |-> diagnostics[i].category]]

\* watch.ts:171
SummaryEvent(errors) ==
    <<[ev |-> "summary", count |-> Len(errors)]>>

\* The order of the statements of a pass that returns: emitFiles (154),
\* the diagnostics (165), the summary (171), the spawn (173-181).
PassEventsReportFirst(writes, diags, summary, spawns) ==
    diags \o summary \o writes \o spawns

PassEvents(writes, diags, summary, spawns) ==
    writes \o diags \o summary \o spawns

\* The scenario of passes with 0, then 1, then 0 Error diagnostics: the
\* stage reached after a pass with nErr of them, -1 once the run has left it.
ScenarioStep(sc, nErr) ==
    CASE sc = 0 /\ nErr = 0 -> 1
      [] sc = 1 /\ nErr = 1 -> 2
      [] sc = 2 /\ nErr = 0 -> 3
      [] OTHER -> -1

\* What spawn may do: lovec starts, or cannot be launched.  No spawn is
\* made once loveIsRunning is set.
SpawnOutcomes(running) ==
    IF SpawnGuard(running) THEN BOOLEAN ELSE {TRUE}

\* The outDir of an options object made by TypeScript's extend(first, second),
\* <<>> standing for an option that is not set: second's properties are
\* copied, then first's over them.
ExtendSecondWins(first, second) ==
    IF second # <<>> THEN second ELSE first

Extend(first, second) ==
    IF first # <<>> THEN first ELSE second

\* watch.ts:111-132: options.outDir in a pass.  The builder's options and the
\* parsedConfigFile.options assigned over them are both the project's
\* options (cfg its outDir) extended from optionsToExtend, whose outDir is
\* the temporary directory.
EffectiveOutDir(cfg) ==
    Extend(outDir, cfg)

\* watch.ts:109-182, one invocation.
afterProgramCreate ==
    /\ host = "running"
    /\ triggered
    /\ passCount < MaxPasses
    /\ LET sf         == AffectedFiles(fullRecompile, pending, outFile, tree)
           options    == [outDir |-> EffectiveOutDir(configOutDir)]
           emitResult == OutputFiles(TranspiledUnits(sf), tree, options.outDir)
           plan       == WritePlan(emitResult, options.outDir, lumeContent, lurkerContent,
                                   bundledLume, bundledLurker)
       IN  /\ sourceFiles' = sf
           /\ pending' = PendingAfter(fullRecompile, pending, outFile, tree)
           /\ triggered' = FALSE
           /\ passCount' = passCount + 1
           /\ prevHadError' = (ErrorEvents(passLog) # {})
           /\ \E failAt \in 0..Len(plan) :
                LET e == emitFiles(emitResult, options.outDir, files, lumeContent,
                                   lurkerContent, bundledLume, bundledLurker, failAt)
                IN  /\ files' = e.files
                    /\ lumeContent' = e.lume
                    /\ lurkerContent' = e.lurker
                    /\ lumeWrites' = lumeWrites
                                       + WritesOf(e.events, Join(outDir, "lume.lua"))
                    /\ lurkerWrites' = lurkerWrites
                                       + WritesOf(e.events, Join(outDir, "lurker.lua"))
                    /\ IF e.threw
                       THEN \* the exception leaves afterProgramCreate and the
                            \* watch program uncaught: the host dies
                            /\ passLog' = e.events
                            /\ host' = "crashed"
                            /\ exitCode' = 1
                            /\ scenario' = -1
                            /\ UNCHANGED << fullRecompile, loveIsRunning, spawnCount,
                                            child, rimrafStarted, completed >>
                       ELSE \E cd \in ConfigDiags, od \in OptionsDiags,
                               sd \in SyntacticDiags, gd \in GlobalDiags,
                               md \in SemanticDiags, ed \in EmitDiags,
                               spawnOk \in SpawnOutcomes(loveIsRunning) :
                            LET diagnostics == sortAndDeduplicateDiagnostics(
                                                   cd \o od \o sd \o gd \o md \o ed)
                                errors      == ErrorsOf(diagnostics)
                                sp          == SpawnBlock(loveIsRunning, spawnCount,
                                                   child, rimrafStarted, spawnOk)
                            IN  /\ passLog' = PassEvents(e.events,
                                                  DiagEvents(diagnostics),
                                                  SummaryEvent(errors), sp.events)
                                /\ fullRecompile' = NextFullRecompile(errors)
                                /\ loveIsRunning' = sp.loveIsRunning
                                /\ spawnCount' = sp.spawnCount
                                /\ child' = sp.child
                                /\ rimrafStarted' = sp.rimrafStarted
                                /\ completed' = completed + 1
                                /\ scenario' = ScenarioStep(scenario,
                                                   Len(SelectSeq(diagnostics,
                                                       LAMBDA d : d.category = "Error")))
                                /\ UNCHANGED << host, exitCode >>
    /\ UNCHANGED << bundledLume, bundledLurker, tree, childStatus, outFile,
                    configOutDir >>

\* A source file is edited while the host waits for a change: the watch
\* program builds a new program whose builder state lists the file as
\* changed.  Edits are explored one per pass, while passes remain.
FileChange(u) ==
    /\ host = "running"
    /\ child # "failed"
    /\ ~triggered
    /\ passCount < MaxPasses
    /\ tree[u] > 0
    /\ tree[u] < MaxVer
    /\ tree' = [tree EXCEPT ![u] = @ + 1]
    /\ pending' = pending \cup {u}
    /\ triggered' = TRUE
    /\ UNCHANGED << fullRecompile, loveIsRunning, lumeContent, lurkerContent,
                    bundledLume, bundledLurker, files, host, exitCode, child,
                    childStatus, rimrafStarted, sourceFiles, passLog, prevHadError, passCount,
                    completed, spawnCount, lumeWrites, lurkerWrites, outFile,
                    configOutDir, scenario >>

\* ts.sys.exit: process.exit ends the host at once.
SysExit(h, code) ==
    [host |-> "exited", exitCode |-> code]

\* A statement runs only while the process is alive.
Rimraf(h, started) ==
    IF h = "running" THEN TRUE ELSE started

\* watch.ts:177: the code handed to ts.sys.exit is the literal 0; the
\* listener declares no parameters, so the child's status st is not read.
CloseExitCodeOfChild(st) ==
    IF st.code < 0 THEN 1 ELSE st.code

CloseExitCode(st) ==
    0

\* watch.ts:176-179, the handler of the child's close event, called with
\* the child's status st: ts.sys.exit(0), then rimraf(outDir).
CloseHandler(h, started, st) ==
    LET s1 == SysExit(h, CloseExitCode(st))
    IN  [ host |-> s1.host, exitCode |-> s1.exitCode,
          rimrafStarted |-> Rimraf(s1.host, started) ]

\* The supervised process closes (any exit code or signal).
ChildClose ==
    /\ host = "running"
    /\ child = "running"
    /\ child' = "closed"
    /\ \E st \in ChildStatuses :
        LET h == CloseHandler(host, rimrafStarted, st)
        IN  /\ childStatus' = st
            /\ host' = h.host
            /\ exitCode' = h.exitCode
            /\ rimrafStarted' = h.rimrafStarted
    /\ UNCHANGED << fullRecompile, loveIsRunning, lumeContent, lurkerContent,
                    bundledLume, bundledLurker, tree, pending, triggered, files,
                    sourceFiles, passLog, prevHadError, passCount, completed,
                    spawnCount, lumeWrites, lurkerWrites, outFile, configOutDir,
                    scenario >>

\* The failed child's "error" event with a listener that ignores it.
SpawnErrorIgnored ==
    /\ host = "running"
    /\ child = "failed"
    /\ child' = "closed"
    /\ UNCHANGED << fullRecompile, loveIsRunning, lumeContent, lurkerContent,
                    bundledLume, bundledLurker, tree, pending, triggered, files,
                    host, exitCode, childStatus, rimrafStarted, sourceFiles,
                    passLog, prevHadError, passCount, completed, spawnCount,
                    lumeWrites, lurkerWrites, outFile, configOutDir, scenario >>

\* lovec could not be launched: the child emits "error" on the next tick,
\* before any other event is handled.  No listener is registered for it
\* (watch.ts:175-179), so the event is thrown in the host and ends it.
SpawnError ==
    /\ host = "running"
    /\ child = "failed"
    /\ host' = "crashed"
    /\ exitCode' = 1
    /\ UNCHANGED << fullRecompile, loveIsRunning, lumeContent, lurkerContent,
                    bundledLume, bundledLurker, tree, pending, triggered, files,
                    child, childStatus, rimrafStarted, sourceFiles, passLog,
                    prevHadError, passCount, completed, spawnCount, lumeWrites,
                    lurkerWrites, outFile, configOutDir, scenario >>

Next ==
    \/ afterProgramCreate
    \/ \E u \in Units : FileChange(u)
    \/ ChildClose
    \/ SpawnError

Spec ==
    Init /\ [][Next]_vars

\* ------------------------------------------------------------------ claims
\* The last pass returned (no write of it failed).
LastPassReturned ==
    completed >= 1 /\ completed = passCount

\* The last pass ran in full mode: sourceFiles was left undefined.
LastPassFull ==
    ~sourceFiles.def

\* C1: of two consecutive passes, the second runs in full mode (sourceFiles
\* undefined) exactly when the first reported at least one Error diagnostic.
C1_ErrorDegradesNextPass ==
    passCount >= 2 => (LastPassFull <=> prevHadError)

C1_Witness ==
    passCount >= 2 /\ prevHadError /\ LastPassFull /\ LastPassReturned

\* C2: lovec is spawned exactly once, by the first pass that returns; no
\* later pass spawns again and loveIsRunning stays set.
C2_SpawnedOnce ==
    /\ spawnCount <= 1
    /\ completed = 0 => spawnCount = 0 /\ ~loveIsRunning
    /\ completed >= 1 => spawnCount = 1 /\ loveIsRunning
    /\ Events(passLog, "spawn") # {} => completed = 1

C2_Witness ==
    completed >= 3 /\ spawnCount = 1 /\ loveIsRunning

\* C3: after every pass that returns, outDir/conf.lua exists and starts with
\* luaConfHead.
C3_ConfAlwaysPresent ==
    LastPassReturned =>
        /\ files[Join(outDir, "conf.lua")].exists
        /\ StartsWith(files[Join(outDir, "conf.lua")].data, luaConfHead)

\* The disk one full pass gives a fresh output directory for source tree t.
FullPassFiles(t) ==
    emitFiles(OutputFiles(UnitOrder, t, outDir), outDir, EmptyFs, Undefined,
              Undefined, bundledLume, bundledLurker, 0).files

\* C4: once every changed unit has been re-emitted, the output directory
\* holds what one full pass over the same source tree gives.
C4_Convergence ==
    (LastPassReturned /\ ~triggered) => files = FullPassFiles(tree)

\* C5: lume.lua and lurker.lua are each written exactly once, whatever the
\* bundled files contain.
C5_ShimsWrittenOnce ==
    completed >= 1 => lumeWrites = 1 /\ lurkerWrites = 1

\* C6: when the child closes, the deletion of the output directory has been
\* started by the time the host exits.
C6_DeleteBeforeExit ==
    host = "exited" => rimrafStarted

\* The step of a pass an event belongs to.
Rank(e) ==
    CASE e.ev = "write" -> 1
      [] e.ev = "writeFailed" -> 1
      [] e.ev = "diag" -> 2
      [] e.ev = "summary" -> 3
      [] OTHER -> 4

\* C7: within a pass every write comes before every reported diagnostic,
\* these before the summary, and the summary before the spawn.
C7_EmitReportSummarySpawn ==
    /\ \A i, j \in 1..Len(passLog) :
          i < j => Rank(passLog[i]) <= Rank(passLog[j])
    /\ Events(passLog, "spawn") # {} => Events(passLog, "summary") # {}
    /\ LastPassReturned => Events(passLog, "write") # {}

C7_Witness ==
    /\ Events(passLog, "write") # {}
    /\ Events(passLog, "diag") # {}
    /\ Events(passLog, "summary") # {}
    /\ Events(passLog, "spawn") # {}

\* C8: the output directory is deleted only once the child has closed; no
\* pass deletes it and it keeps its files while the child runs.
C8_NoDeleteWhileChildRuns ==
    /\ rimrafStarted => child = "closed"
    /\ child = "running" =>
          ~rimrafStarted /\ files[Join(outDir, "lume.lua")].exists

C8_Witness ==
    child = "running" /\ completed >= 2 /\ ~rimrafStarted

\* C9: a pass that returns reports exactly one summary, after all of its
\* diagnostics, and the summary counts the Error diagnostics reported.
C9_OneSummaryCountsErrors ==
    LastPassReturned =>
        /\ Cardinality(Events(passLog, "summary")) = 1
        /\ \A s \in Events(passLog, "summary") :
              /\ \A d \in Events(passLog, "diag") : d < s
              /\ passLog[s].count = Cardinality(ErrorEvents(passLog))

C9_Witness ==
    /\ LastPassReturned
    /\ Cardinality(ErrorEvents(passLog)) = 2
    /\ Cardinality(Events(passLog, "diag")) = 3

\* C10: a pass in which a write fails reports no summary, leaves
\* fullRecompile and loveIsRunning as they were, spawns nothing and ends the
\* host.
C10_WriteFailurePropagates ==
    [][ (passCount' = passCount + 1 /\ Events(passLog', "writeFailed") # {}) =>
            /\ Events(passLog', "summary") = {}
            /\ Events(passLog', "spawn") = {}
            /\ fullRecompile' = fullRecompile
            /\ loveIsRunning' = loveIsRunning
            /\ spawnCount' = spawnCount
            /\ child' = child
            /\ host' = "crashed" ]_vars

C10_Witness ==
    /\ passCount = 1
    /\ Events(passLog, "writeFailed") # {}
    /\ Events(passLog, "write") # {}
    /\ spawnCount = 0
    /\ host = "crashed"

\* C11: once lovec could not be launched, the only thing the host does is
\* end with the thrown error: no pass and no other event is handled with
\* loveIsRunning set and no child.
C11_SpawnFailureEndsSession ==
    [][ child = "failed" =>
            /\ host' = "crashed"
            /\ exitCode' = 1
            /\ passCount' = passCount
            /\ child' = "failed" ]_vars

C11_Witness ==
    child = "failed" /\ loveIsRunning /\ host = "crashed" /\ passCount = 1

\* C12: whenever the child has closed, whatever its exit code or signal,
\* the host has exited with code 0.
C12_HostExitsZero ==
    child = "closed" => host = "exited" /\ exitCode = 0

C12_Witness ==
    child = "closed" /\ childStatus.code = 1 /\ exitCode = 0

\* The last pass reported one summary, with count n.
SummaryIs(n) ==
    /\ Events(passLog, "summary") # {}
    /\ \A i \in Events(passLog, "summary") : passLog[i].count = n

\* C13: in a session whose passes report 0, 1 and 0 errors, pass 1 is full
\* and spawns lovec, pass 2 is incremental and its summary counts 1, pass 3
\* is full, its summary counts 0 and nothing is spawned again; a pass 4
\* would be incremental.
C13_ScenarioTrace ==
    /\ scenario = 1 =>
          LastPassFull /\ SummaryIs(0) /\ Events(passLog, "spawn") # {}
    /\ scenario = 2 =>
          /\ ~LastPassFull /\ SummaryIs(1)
          /\ Events(passLog, "spawn") = {} /\ spawnCount = 1
    /\ scenario = 3 =>
          /\ LastPassFull /\ SummaryIs(0)
          /\ Events(passLog, "spawn") = {} /\ spawnCount = 1
          /\ ~fullRecompile

C13_Witness ==
    scenario = 3 /\ passCount = 3 /\ child = "running"

\* The number of places at which pat occurs in s.
Occurrences(s, pat) ==
    Cardinality({ i \in 1..(Len(s) - Len(pat) + 1) :
                    SubSeq(s, i, i + Len(pat) - 1) = pat })

\* C14: a main.lua on disk is the text generated for some version of the
\* entry point, a newline and the tail block, and holds the tail block exactly
\* once; right after a pass that wrote it, the text is that of the current
\* version.
C14_MainHasOneTail ==
    LET main == files[Join(outDir, "main.lua")]
    IN  main.exists =>
          /\ \E v \in 1..MaxVer :
                main.data = LuaText("main", v) \o <<NL>> \o luaMainTail
          /\ Occurrences(main.data, luaMainTail) = 1
          /\ (~triggered /\ WritesOf(passLog, Join(outDir, "main.lua")) > 0) =>
                main.data = LuaText("main", tree["main"]) \o <<NL>> \o luaMainTail

C14_Witness ==
    /\ passCount = 3
    /\ ~LastPassFull
    /\ WritesOf(passLog, Join(outDir, "main.lua")) > 0
    /\ files[Join(outDir, "main.lua")].data
          = LuaText("main", 2) \o <<NL>> \o luaMainTail

\* C15: after every pass that returns, when the project has a conf source,
\* outDir/conf.lua is the head block, a newline and the text generated for
\* some version of that source; a pass that did not write the user's conf.lua
\* leaves that content in place.
C15_ConfKeepsUserContent ==
    (LastPassReturned /\ tree["conf"] > 0) =>
        \E v \in 1..MaxVer :
            files[Join(outDir, "conf.lua")].data
                = luaConfHead \o <<NL>> \o LuaText("conf", v)

\* C17: a pass in incremental mode hands the transpiler exactly what the
\* builder returned until it returned nothing (each pending file once, or
\* every source file of the program when the program is the affected unit)
\* and leaves the builder with nothing pending; a pass in full mode leaves
\* the builder's pending files as they were and hands over no list.
C17_LoopDrainsBuilder ==
    [][ passCount' = passCount + 1 =>
          IF fullRecompile
          THEN pending' = pending /\ ~sourceFiles'.def
          ELSE /\ sourceFiles'.def
               /\ pending' = {}
               /\ sourceFiles'.list
                     = IF pending = {} THEN <<>>
                       ELSE IF outFile
                            THEN SelectSeq(UnitOrder, LAMBDA u : tree[u] > 0)
                            ELSE SelectSeq(UnitOrder, LAMBDA u : u \in pending) ]_vars

C17_Witness ==
    /\ outFile
    /\ passCount = 3
    /\ sourceFiles.def
    /\ sourceFiles.list = <<"conf", "main", "a">>
    /\ pending = {}
    /\ tree["a"] = 2 /\ tree["main"] = 2

\* C18: the first pass that returns launches lovec, with or without Error
\* diagnostics among those it reported: the step that completes it logs a
\* spawn and leaves a child behind.
C18_FirstPassLaunches ==
    [][ (completed = 0 /\ completed' = 1) =>
          /\ Events(passLog', "spawn") # {}
          /\ spawnCount' = 1
          /\ child' \in {"running", "failed"} ]_vars

C18_Witness ==
    /\ passCount = 1 /\ completed = 1
    /\ ErrorEvents(passLog) # {}
    /\ fullRecompile
    /\ Events(passLog, "spawn") # {}
    /\ child = "running"

\* C19: whatever outDir the project's own configuration names, the files
\* emitFiles writes by itself (the fallback conf.lua and the two shims), and
\* every other file of a pass, go below the directory lovec is launched on
\* and rimraf is given: outDir of optionsToExtend.
C19_EmitDirIsLaunchDir ==
    /\ \A i \in Events(passLog, "spawn") : passLog[i].dir = outDir
    /\ \A i \in Events(passLog, "write") :
          /\ StartsWith(passLog[i].name, outDir)
          /\ Basename(passLog[i].name) \in {"conf.lua", "lume.lua", "lurker.lua"}
                /\ Len(passLog[i].name) <= Len(outDir) + 1
                => passLog[i].name = Join(outDir, Basename(passLog[i].name))
          /\ \A j \in Events(passLog, "spawn") :
                StartsWith(passLog[i].name, passLog[j].dir)

C19_Witness ==
    /\ configOutDir = <<"dist">>
    /\ passCount = 1
    /\ Events(passLog, "spawn") # {}
    /\ WritesOf(passLog, Join(outDir, "conf.lua")) > 0
    /\ WritesOf(passLog, Join(outDir, "lume.lua")) > 0
    /\ WritesOf(passLog, Join(outDir, "lurker.lua")) > 0

====
